---- MODULE Spec2Model ----
(***************************************************************************)
(* Model of the AI code reviewer (src/main.py): the response parser        *)
(* AICodeReviewer._parse_response, the review router, the directory walk   *)
(* review_directory, the report writer generate_report and the CLI main.   *)
(*                                                                         *)
(* A response text is a sequence of lexical tokens [k, s]: punctuation,    *)
(* JSON string literals, JSON number literals, the JSON literals           *)
(* true/false/null, and prose words.  Whitespace carries no token.         *)
(* A Python value obtained from json.loads is a record tagged by "type".   *)
(***************************************************************************)
EXTENDS Integers, Sequences, FiniteSets, TLC

VARIABLES pc, args, env, idx, reviews, opened, calls, stdout, report,
          exitCode, response, result

vars == <<pc, args, env, idx, reviews, opened, calls, stdout, report,
          exitCode, response, result>>

(***************************************************************************)
(* Bounds of the model.                                                    *)
(***************************************************************************)
MaxProse == 1
MaxIssues == 1
MaxFiles == 2

(***************************************************************************)
(* Tokens.                                                                 *)
(***************************************************************************)
P(s) == [k |-> "punct", s |-> s]
S(s) == [k |-> "str", s |-> s]
N(s) == [k |-> "num", s |-> s]
L(s) == [k |-> "lit", s |-> s]
W(s) == [k |-> "word", s |-> s]

LBrace == P("{")
RBrace == P("}")
LBrack == P("[")
RBrack == P("]")
Comma == P(",")
Colon == P(":")

(***************************************************************************)
(* Python values.                                                          *)
(***************************************************************************)
PyNone == [type |-> "null"]
PyBool(b) == [type |-> "bool", b |-> b]
PyInt(n) == [type |-> "number", num |-> n]
PyStr(s) == [type |-> "string", str |-> s]
PyList(items) == [type |-> "array", items |-> items]
PyDict(members) == [type |-> "object", members |-> members]

\* The value of a JSON number literal (the numerals the model's texts use).
NumberValue(s) ==
  CASE s = "-50" -> -50
    [] s = "0" -> 0
    [] s = "5" -> 5
    [] s = "10" -> 10
    [] s = "85" -> 85
    [] s = "100" -> 100
    [] s = "150" -> 150

\* The numeral of an integer, as json.dumps writes it.
Numeral(n) ==
  CASE n = -50 -> "-50"
    [] n = 0 -> "0"
    [] n = 5 -> "5"
    [] n = 10 -> "10"
    [] n = 85 -> "85"
    [] n = 100 -> "100"
    [] n = 150 -> "150"

(***************************************************************************)
(* json.loads: a recursive-descent parser over the tokens of the span.     *)
(* ParseValue(t, i) parses one value starting at position i and returns    *)
(* [ok, val, next]; ParseElements and ParseMembers parse the rest of an    *)
(* array or object after its opening bracket.                              *)
(***************************************************************************)
Fail == [ok |-> FALSE, val |-> PyNone, next |-> 0]
Ok(v, n) == [ok |-> TRUE, val |-> v, next |-> n]

\* dict assignment d[key] = v: a repeated key keeps its place, the last value wins.
DictSet(members, key, v) ==
  IF \E j \in 1..Len(members) : members[j].key = key
    THEN [j \in 1..Len(members) |->
            IF members[j].key = key THEN [key |-> key, val |-> v] ELSE members[j]]
    ELSE Append(members, [key |-> key, val |-> v])

RECURSIVE ParseValue(_, _), ParseElements(_, _, _), ParseMembers(_, _, _)

ParseValue(t, i) ==
  IF i > Len(t) THEN Fail
  ELSE
    LET tok == t[i] IN
    CASE tok.k = "num" -> Ok(PyInt(NumberValue(tok.s)), i + 1)
      [] tok.k = "str" -> Ok(PyStr(tok.s), i + 1)
      [] tok.k = "lit" ->
           IF tok.s = "null" THEN Ok(PyNone, i + 1)
           ELSE Ok(PyBool(tok.s = "true"), i + 1)
      [] tok = LBrack ->
           IF i + 1 <= Len(t) /\ t[i + 1] = RBrack
             THEN Ok(PyList(<<>>), i + 2)
             ELSE ParseElements(t, i + 1, <<>>)
      [] tok = LBrace ->
           IF i + 1 <= Len(t) /\ t[i + 1] = RBrace
             THEN Ok(PyDict(<<>>), i + 2)
             ELSE ParseMembers(t, i + 1, <<>>)
      [] OTHER -> Fail

ParseElements(t, i, acc) ==
  LET v == ParseValue(t, i) IN
  IF ~v.ok \/ v.next > Len(t) THEN Fail
  ELSE IF t[v.next] = RBrack THEN Ok(PyList(Append(acc, v.val)), v.next + 1)
  ELSE IF t[v.next] = Comma THEN ParseElements(t, v.next + 1, Append(acc, v.val))
  ELSE Fail

ParseMembers(t, i, acc) ==
  IF i + 1 > Len(t) \/ t[i].k # "str" \/ t[i + 1] # Colon THEN Fail
  ELSE
    LET v == ParseValue(t, i + 2) IN
    IF ~v.ok \/ v.next > Len(t) THEN Fail
    ELSE IF t[v.next] = RBrace
      THEN Ok(PyDict(DictSet(acc, t[i].s, v.val)), v.next + 1)
    ELSE IF t[v.next] = Comma
      THEN ParseMembers(t, v.next + 1, DictSet(acc, t[i].s, v.val))
    ELSE Fail

\* json.loads(text): one value and nothing after it, else JSONDecodeError.
JsonLoads(t) ==
  LET v == ParseValue(t, 1) IN
  IF v.ok /\ v.next = Len(t) + 1
    THEN [raised |-> FALSE, exc |-> "", val |-> v.val]
    ELSE [raised |-> TRUE, exc |-> "JSONDecodeError", val |-> PyNone]

(***************************************************************************)
(* AICodeReviewer._parse_response.                                         *)
(***************************************************************************)
\* A response as _call_gemini returns it: response.text, which may be None.
NoneResponse == [isNone |-> TRUE, text |-> <<>>]
TextResponse(t) == [isNone |-> FALSE, text |-> t]

Positions(t, tok) == {i \in 1..Len(t) : t[i] = tok}
Min(X) == CHOOSE x \in X : \A y \in X : x <= y
Max(X) == CHOOSE x \in X : \A y \in X : x >= y

\* re.search(r"\{[\s\S]*\}", response): the leftmost "{" and, greedily, the
\* last "}" after it.
ReSearch(t) ==
  LET opens == Positions(t, LBrace)
      first == Min(opens)
      closes == IF opens = {} THEN {} ELSE {j \in Positions(t, RBrace) : j > first}
  IN IF closes = {}
       THEN [found |-> FALSE, group |-> <<>>]
       ELSE [found |-> TRUE, group |-> SubSeq(t, first, Max(closes))]

\* data.get(key, default) on the loaded value; only a dict has .get.
DictGet(d, key, default) ==
  LET hits == {j \in 1..Len(d.members) : d.members[j].key = key}
  IN IF hits = {} THEN default ELSE d.members[Max(hits)].val

\* The strings int() reads as a decimal integer, among the strings of the model.
IsDecimal(s) == s \in {"-50", "0", "5", "10", "85", "100", "150"}

\* int(x): numbers and bools convert, a decimal string is read, anything else raises.
PyIntOf(x) ==
  CASE x.type = "number" -> [raised |-> FALSE, exc |-> "", val |-> x.num]
    [] x.type = "bool" -> [raised |-> FALSE, exc |-> "", val |-> IF x.b THEN 1 ELSE 0]
    [] x.type = "string" ->
         IF IsDecimal(x.str)
           THEN [raised |-> FALSE, exc |-> "", val |-> NumberValue(x.str)]
           ELSE [raised |-> TRUE, exc |-> "ValueError", val |-> 0]
    [] OTHER -> [raised |-> TRUE, exc |-> "TypeError", val |-> 0]

PyMin(a, b) == IF a <= b THEN a ELSE b
PyMax(a, b) == IF a >= b THEN a ELSE b

\* score = max(0, min(100, score))
ClampNoCeiling(score) == PyMax(0, score)
Clamp(score) == PyMax(0, PyMin(100, score))

CodeReview(file_path, issues, suggestions, quality_score, summary) ==
  [file_path |-> file_path, issues |-> issues, suggestions |-> suggestions,
   quality_score |-> quality_score, summary |-> summary]

Raise(exc) == [raised |-> TRUE, exc |-> exc, val |-> CodeReview(<<>>, PyNone, PyNone, 0, PyNone)]
Return(v) == [raised |-> FALSE, exc |-> "", val |-> v]

\* The body of the try block, lines 57-72.
ParseBody(resp, file_path) ==
  IF resp.isNone THEN Raise("TypeError")
  ELSE
    LET match == ReSearch(resp.text) IN
    IF ~match.found THEN Raise("ValueError")
    ELSE
      LET loaded == JsonLoads(match.group) IN
      IF loaded.raised THEN Raise(loaded.exc)
      ELSE IF loaded.val.type # "object" THEN Raise("AttributeError")
      ELSE
        LET data == loaded.val
            score == PyIntOf(DictGet(data, "quality_score", PyInt(0)))
        IN IF score.raised THEN Raise(score.exc)
           ELSE Return(CodeReview(file_path,
                                  DictGet(data, "issues", PyList(<<>>)),
                                  DictGet(data, "suggestions", PyList(<<>>)),
                                  Clamp(score.val),
                                  DictGet(data, "summary", PyStr(""))))

\* The except branch, lines 74-85.
ErrorReview(file_path, exc) ==
  CodeReview(file_path,
             PyList(<<PyDict(<<[key |-> "type", val |-> PyStr("error")],
                               [key |-> "line", val |-> PyInt(0)],
                               [key |-> "message", val |-> PyStr(exc)]>>)>>),
             PyList(<<>>),
             0,
             PyStr("Invalid Gemini response"))

\* A handler that catches ValueError alone (JSONDecodeError is one).
ParseResponseCatchingValueError(resp, file_path) ==
  LET body == ParseBody(resp, file_path) IN
  IF body.raised /\ body.exc \in {"ValueError", "JSONDecodeError"}
    THEN Return(ErrorReview(file_path, body.exc))
    ELSE body

\* try: ... except Exception as e: ...
ParseResponse(resp, file_path) ==
  LET body == ParseBody(resp, file_path) IN
  IF body.raised THEN Return(ErrorReview(file_path, body.exc)) ELSE body

(***************************************************************************)
(* The response texts the parser is exercised on: json.dumps of an object  *)
(* whose four fields are each absent or one of a few values, whole or cut  *)
(* short by one token, between up to MaxProse tokens of prose on each      *)
(* side.  Prose may hold braces; a code-fence line is a prose word.        *)
(***************************************************************************)
RECURSIVE Dumps(_), DumpsItems(_, _), DumpsMembers(_, _)

Dumps(v) ==
  CASE v.type = "null" -> <<L("null")>>
    [] v.type = "bool" -> <<L(IF v.b THEN "true" ELSE "false")>>
    [] v.type = "number" -> <<N(Numeral(v.num))>>
    [] v.type = "string" -> <<S(v.str)>>
    [] v.type = "array" -> <<LBrack>> \o DumpsItems(v.items, 1) \o <<RBrack>>
    [] v.type = "object" -> <<LBrace>> \o DumpsMembers(v.members, 1) \o <<RBrace>>

DumpsItems(items, i) ==
  IF i > Len(items) THEN <<>>
  ELSE Dumps(items[i])
       \o (IF i < Len(items) THEN <<Comma>> ELSE <<>>)
       \o DumpsItems(items, i + 1)

DumpsMembers(members, i) ==
  IF i > Len(members) THEN <<>>
  ELSE <<S(members[i].key), Colon>> \o Dumps(members[i].val)
       \o (IF i < Len(members) THEN <<Comma>> ELSE <<>>)
       \o DumpsMembers(members, i + 1)

Absent == [present |-> FALSE, val |-> PyNone]
Present(v) == [present |-> TRUE, val |-> v]

AnIssue ==
  PyDict(<<[key |-> "type", val |-> PyStr("bug")],
           [key |-> "line", val |-> PyInt(10)]>>)
ASuggestion ==
  PyDict(<<[key |-> "category", val |-> PyStr("style")]>>)

Repeat(v, n) == [j \in 1..n |-> v]

ScoreOptions ==
  <<Absent, Present(PyInt(-50)), Present(PyInt(85)), Present(PyInt(150)),
    Present(PyNone), Present(PyStr("high")), Present(PyStr("85")),
    Present(PyBool(TRUE))>>
IssuesOptions ==
  <<Absent, Present(PyStr("no")), Present(PyInt(5)), Present(PyNone),
    Present(PyDict(<<>>))>>
  \o [n \in 1..(MaxIssues + 1) |-> Present(PyList(Repeat(AnIssue, n - 1)))]
SuggestionsOptions ==
  <<Absent, Present(PyList(<<ASuggestion>>)), Present(PyStr("no"))>>
SummaryOptions ==
  <<Absent, Present(PyStr("ok"))>>

Member(key, opt) == IF opt.present THEN <<[key |-> key, val |-> opt.val]>> ELSE <<>>

ModelObject(is, su, qs, sm) ==
  PyDict(Member("issues", IssuesOptions[is])
         \o Member("suggestions", SuggestionsOptions[su])
         \o Member("quality_score", ScoreOptions[qs])
         \o Member("summary", SummaryOptions[sm]))

\* W("fence") is a Markdown code-fence line.
ProseTokens == {W("fence"), LBrace, RBrace}

RECURSIVE SeqsUpTo(_, _)
SeqsUpTo(X, n) ==
  IF n = 0 THEN {<<>>}
  ELSE LET shorter == SeqsUpTo(X, n - 1)
       IN shorter \cup {Append(q, x) : q \in shorter, x \in X}

Prose == SeqsUpTo(ProseTokens, MaxProse)

Truncated(t, k) == SubSeq(t, 1, Len(t) - k)

SubjectPath == <<"t", ".", "p", "y">>

(***************************************************************************)
(* The review router and the prompt.  The prompt text carries the focus    *)
(* label and the file path; the rest of it is fixed.                       *)
(***************************************************************************)
ReviewTypes == {"quick", "detailed", "security"}

BuildPrompt(file_path, focus) == [focus |-> focus, file_path |-> file_path]

\* review_code: the focus of _quick_review, _security_review, _detailed_review.
Focus(review_type) ==
  CASE review_type = "quick" -> "Quick overall review"
    [] review_type = "security" -> "Strict security vulnerability review"
    [] OTHER -> "Detailed quality and design review"

\* The outcome of one generate_content call: it fails, or returns a response.
UpstreamFailure == [ok |-> FALSE, resp |-> NoneResponse]
UpstreamReply(resp) == [ok |-> TRUE, resp |-> resp]

\* A _call_gemini that returns None on failure instead of raising.
ReviewCodeSwallowingFailure(file_path, review_type, upstream) ==
  ParseResponse(upstream.resp, file_path)

\* _call_gemini followed by _parse_response; a failed call raises RuntimeError.
ReviewCode(file_path, review_type, upstream) ==
  IF upstream.ok
    THEN ParseResponse(upstream.resp, file_path)
    ELSE Raise("RuntimeError")

\* The responses the upstream service gives in the runs of main.
UpstreamTexts ==
  <<NoneResponse,
    TextResponse(<<W("Sorry")>>),
    TextResponse(<<W("fence")>>
                 \o Dumps(PyDict(<<[key |-> "issues", val |-> PyList(<<AnIssue>>)],
                                   [key |-> "suggestions", val |-> PyList(<<ASuggestion>>)],
                                   [key |-> "quality_score", val |-> PyInt(150)],
                                   [key |-> "summary", val |-> PyStr("ok")]>>))
                 \o <<W("fence")>>),
    TextResponse(Dumps(PyDict(<<[key |-> "issues", val |-> PyInt(5)],
                                [key |-> "quality_score", val |-> PyInt(85)]>>))),
    TextResponse(Dumps(PyDict(<<[key |-> "issues", val |-> PyStr("no")],
                                [key |-> "quality_score", val |-> PyInt(-50)]>>))),
    TextResponse(Dumps(PyDict(<<[key |-> "quality_score", val |-> PyNone]>>)))>>

Upstreams ==
  {UpstreamFailure} \cup {UpstreamReply(UpstreamTexts[j]) : j \in 1..Len(UpstreamTexts)}

(***************************************************************************)
(* File names are character sequences; str.endswith is a suffix test.      *)
(***************************************************************************)
EndsWith(name, ext) ==
  /\ Len(ext) <= Len(name)
  /\ SubSeq(name, Len(name) - Len(ext) + 1, Len(name)) = ext

StartsWith(name, ext) ==
  /\ Len(ext) <= Len(name)
  /\ SubSeq(name, 1, Len(ext)) = ext

\* any(file.endswith(ext) for ext in extensions)
MatchesAnywhere(file, extensions) ==
  \E j \in 1..Len(extensions) :
    \E k \in 1..Len(file) : StartsWith(SubSeq(file, k, Len(file)), extensions[j])
Matches(file, extensions) ==
  \E j \in 1..Len(extensions) : EndsWith(file, extensions[j])

DotPy == <<".", "p", "y">>
DotTxt == <<".", "t", "x", "t">>
DefaultExtensions ==
  <<DotPy, <<".", "j", "s">>, <<".", "j", "a", "v", "a">>, <<".", "c", "p", "p">>,
    <<".", "c">>, <<".", "g", "o">>, <<".", "r", "s">>>>

\* args.extensions: None (here the empty list) when the option is not given.
ExtensionArgs == {<<>>, <<DotPy>>, <<DotTxt, DotPy>>}

FileNames ==
  {<<"a", ".", "p", "y">>, <<"b", ".", "t", "x", "t">>, <<"c", ".", "p", "y">>,
   <<"d", ".", "P", "Y">>, <<"e", ".", "p", "y", "c">>}

\* The file names os.walk yields, in traversal order: distinct paths.
Listings ==
  {l \in SeqsUpTo(FileNames, MaxFiles) :
     \A i, j \in 1..Len(l) : i # j => l[i] # l[j]}

(***************************************************************************)
(* generate_report.                                                        *)
(***************************************************************************)
\* bool(v), as "if r.issues:" tests it.
Truthy(v) ==
  CASE v.type = "null" -> FALSE
    [] v.type = "bool" -> v.b
    [] v.type = "number" -> v.num # 0
    [] v.type = "string" -> v.str # ""
    [] v.type = "array" -> v.items # <<>>
    [] v.type = "object" -> v.members # <<>>

\* The characters of the strings the model's responses put in issues/suggestions.
Chars(s) ==
  CASE s = "no" -> <<PyStr("n"), PyStr("o")>>
    [] s = "ok" -> <<PyStr("o"), PyStr("k")>>
    [] OTHER -> <<PyStr(s)>>

Iterable(v) == v.type \in {"array", "object", "string"}

\* iter(v): the elements a for loop visits.
Iterate(v) ==
  CASE v.type = "array" -> v.items
    [] v.type = "object" -> [j \in 1..Len(v.members) |-> PyStr(v.members[j].key)]
    [] v.type = "string" -> Chars(v.str)
    [] OTHER -> <<>>

RECURSIVE SumScores(_, _)
SumScores(rs, i) ==
  IF i > Len(rs) THEN 0 ELSE rs[i].quality_score + SumScores(rs, i + 1)

\* f"{avg:.1f}" in tenths: the quotient rounded to one decimal, ties to even.
Tenths(sum, n) ==
  LET q == (10 * sum) \div n
      r == (10 * sum) % n
  IN IF 2 * r > n \/ (2 * r = n /\ q % 2 = 1) THEN q + 1 ELSE q

\* avg = sum(...) / len(reviews) if reviews else 0
AverageTenths(rs) ==
  IF Len(rs) > 0 THEN Tenths(SumScores(rs, 1), Len(rs)) ELSE 0

\* One block ("### Issues" or "### Suggestions") of a section.
Block(v) ==
  IF ~Truthy(v) THEN [written |-> FALSE, lines |-> <<>>, fault |-> FALSE]
  ELSE [written |-> TRUE, lines |-> Iterate(v), fault |-> ~Iterable(v)]

\* The section of one review; a TypeError in a block ends the writing there.
Section(r) ==
  LET issues == Block(r.issues)
      suggestions == IF issues.fault
                       THEN [written |-> FALSE, lines |-> <<>>, fault |-> FALSE]
                       ELSE Block(r.suggestions)
  IN [file_path |-> r.file_path, score |-> r.quality_score, summary |-> r.summary,
      issues |-> issues, suggestions |-> suggestions,
      fault |-> issues.fault \/ suggestions.fault]

RECURSIVE Sections(_, _)
Sections(rs, i) ==
  IF i > Len(rs) THEN <<>>
  ELSE LET sec == Section(rs[i])
       IN IF sec.fault THEN <<sec>> ELSE <<sec>> \o Sections(rs, i + 1)

NoReport ==
  [written |-> FALSE, files |-> 0, average |-> 0, sections |-> <<>>, fault |-> FALSE]

GenerateReport(rs) ==
  LET secs == Sections(rs, 1)
  IN [written |-> TRUE, files |-> Len(rs), average |-> AverageTenths(rs),
      sections |-> secs,
      fault |-> \E j \in 1..Len(secs) : secs[j].fault]

(***************************************************************************)
(* The run of main.  env is what the process finds: whether GEMINI_API_KEY *)
(* is set, what args.path names, and the files os.walk yields.  pc is the  *)
(* position in main; exitCode is the process's status once pc = "done".    *)
(***************************************************************************)
NoResult == Return(CodeReview(<<>>, PyNone, PyNone, 0, PyNone))

Say(msg, path) == [msg |-> msg, path |-> path]

Init ==
  /\ pc = "main"
  /\ \E type \in ReviewTypes, kind \in {"file", "dir", "missing"}, key \in BOOLEAN :
       \E exts \in (IF kind = "dir" THEN ExtensionArgs ELSE {<<>>}),
          listing \in (IF kind = "dir" THEN Listings ELSE {<<>>}) :
         /\ args = [type |-> type, extensions |-> exts]
         /\ env = [hasKey |-> key, pathKind |-> kind, listing |-> listing]
  /\ idx = 0
  /\ reviews = <<>>
  /\ opened = <<>>
  /\ calls = <<>>
  /\ stdout = <<>>
  /\ report = NoReport
  /\ exitCode = 0
  /\ response = NoneResponse
  /\ result = NoResult

\* An uncaught exception ends the process with status 1.
Crash ==
  /\ pc' = "done"
  /\ exitCode' = 1

\* main, lines 220-238, up to the first file access.
Main ==
  /\ pc = "main"
  /\ IF ~env.hasKey
       THEN Crash /\ UNCHANGED <<idx, stdout>>
       ELSE CASE env.pathKind = "file" ->
                   /\ pc' = "file"
                   /\ UNCHANGED <<idx, stdout, exitCode>>
              [] env.pathKind = "dir" ->
                   /\ pc' = "walk"
                   /\ idx' = 1
                   /\ UNCHANGED <<stdout, exitCode>>
              [] OTHER ->
                   /\ stdout' = Append(stdout, Say("Invalid path", <<>>))
                   /\ pc' = "done"
                   /\ exitCode' = 0
                   /\ UNCHANGED idx
  /\ UNCHANGED <<args, env, reviews, opened, calls, report, response, result>>

\* main, lines 224-227: read the file and review it with the --type given.
ReviewFile ==
  /\ pc = "file"
  /\ \E readable \in BOOLEAN, upstream \in Upstreams :
       /\ opened' = Append(opened, [path |-> SubjectPath, ok |-> readable])
       /\ IF ~readable
            THEN Crash /\ UNCHANGED <<calls, reviews>>
            ELSE LET review == ReviewCode(SubjectPath, args.type, upstream) IN
                 /\ calls' = Append(calls, [prompt |-> BuildPrompt(SubjectPath, Focus(args.type)),
                                            ok |-> upstream.ok])
                 /\ IF review.raised
                      THEN Crash /\ UNCHANGED reviews
                      ELSE /\ reviews' = <<review.val>>
                           /\ pc' = "report"
                           /\ UNCHANGED exitCode
  /\ UNCHANGED <<args, env, idx, stdout, report, response, result>>

\* The review type review_directory reviews with: review_code's default (line 93),
\* since line 166 passes none.
DirectoryReviewType == "detailed"

\* The extensions main passes: args.extensions or the default list.
Extensions == IF args.extensions = <<>> THEN DefaultExtensions ELSE args.extensions

\* review_directory, lines 159-171: one file of the walk.
WalkStep ==
  /\ pc = "walk"
  /\ idx <= Len(env.listing)
  /\ LET path == env.listing[idx] IN
     IF ~Matches(path, Extensions)
       THEN UNCHANGED <<opened, calls, reviews, stdout>>
       ELSE \E readable \in BOOLEAN, upstream \in Upstreams :
              /\ opened' = Append(opened, [path |-> path, ok |-> readable])
              /\ IF ~readable
                   THEN /\ stdout' = Append(stdout, Say("Error reviewing", path))
                        /\ UNCHANGED <<calls, reviews>>
                   ELSE LET review == ReviewCode(path, DirectoryReviewType, upstream) IN
                        /\ calls' = Append(calls,
                                           [prompt |-> BuildPrompt(path, Focus(DirectoryReviewType)),
                                            ok |-> upstream.ok])
                        /\ IF review.raised
                             THEN /\ stdout' = Append(stdout, Say("Error reviewing", path))
                                  /\ UNCHANGED reviews
                             ELSE /\ reviews' = Append(reviews, review.val)
                                  /\ stdout' = Append(stdout, Say("Reviewed", path))
  /\ idx' = idx + 1
  /\ UNCHANGED <<pc, args, env, report, exitCode, response, result>>

\* review_directory, line 173: the walk is over.
WalkReturn ==
  /\ pc = "walk"
  /\ idx > Len(env.listing)
  /\ pc' = "report"
  /\ UNCHANGED <<args, env, idx, reviews, opened, calls, stdout, report, exitCode,
                 response, result>>

\* generate_report and the end of main (lines 228-229, 234-235).
WriteReport ==
  /\ pc = "report"
  /\ report' = GenerateReport(reviews)
  /\ IF report'.fault
       THEN Crash /\ UNCHANGED stdout
       ELSE /\ stdout' = Append(stdout, Say("Report generated", <<>>))
            /\ pc' = "done"
            /\ exitCode' = 0
  /\ UNCHANGED <<args, env, idx, reviews, opened, calls, response, result>>

Next == Main \/ ReviewFile \/ WalkStep \/ WalkReturn \/ WriteReport

Spec == Init /\ [][Next]_vars

(***************************************************************************)
(* _parse_response on its own: any response text of the family above, or   *)
(* None.                                                                   *)
(***************************************************************************)
ModelTexts ==
  {pre \o Truncated(Dumps(ModelObject(is, su, qs, sm)), k) \o post :
     pre \in Prose, post \in Prose, k \in {0, 1},
     is \in 1..Len(IssuesOptions), su \in 1..Len(SuggestionsOptions),
     qs \in 1..Len(ScoreOptions), sm \in 1..Len(SummaryOptions)}

InitParse ==
  /\ pc = "parse"
  /\ response \in {NoneResponse} \cup {TextResponse(t) : t \in ModelTexts}
  /\ args = [type |-> "detailed", extensions |-> <<>>]
  /\ env = [hasKey |-> TRUE, pathKind |-> "file", listing |-> <<>>]
  /\ idx = 0
  /\ reviews = <<>>
  /\ opened = <<>>
  /\ calls = <<>>
  /\ stdout = <<>>
  /\ report = NoReport
  /\ exitCode = 0
  /\ result = NoResult

Parse ==
  /\ pc = "parse"
  /\ result' = ParseResponse(response, SubjectPath)
  /\ pc' = "parsed"
  /\ UNCHANGED <<args, env, idx, reviews, opened, calls, stdout, report, exitCode,
                 response>>

NextParse == Parse

SpecParse == InitParse /\ [][NextParse]_vars

(***************************************************************************)
(* Properties of _parse_response, checked under SpecParse.                 *)
(***************************************************************************)
Parsed == pc = "parsed"

\* The span re.search extracts holds no valid JSON (or there is no span).
NoValidSpan ==
  \/ response.isNone
  \/ ~ReSearch(response.text).found
  \/ JsonLoads(ReSearch(response.text).group).raised

SpanIsObject ==
  /\ ~NoValidSpan
  /\ JsonLoads(ReSearch(response.text).group).val.type = "object"

\* The dict json.loads returns for the span.
Data == JsonLoads(ReSearch(response.text).group).val

HasKey(d, key) == \E j \in 1..Len(d.members) : d.members[j].key = key

IsSentinel(r) ==
  /\ r.quality_score = 0
  /\ r.suggestions = PyList(<<>>)
  /\ r.issues.type = "array"
  /\ r.issues.items # <<>>

\* C1: _parse_response returns a CodeReview for every response, None included,
\* and never raises; when the response has no {...} span or the span is not
\* valid JSON the result has quality_score 0, no suggestions and a non-empty
\* list of issues.
C1_NeverRaisesAndSentinel ==
  Parsed =>
    /\ ~result.raised
    /\ result.val.file_path = SubjectPath
    /\ NoValidSpan => IsSentinel(result.val)

C1_Witness_NoneResponse ==
  /\ Parsed
  /\ response.isNone
  /\ IsSentinel(result.val)

\* C2: every CodeReview _parse_response returns, and every element of the
\* list review_directory builds, has quality_score in 0..100.
C2_ScoreInRange ==
  /\ Parsed => result.val.quality_score \in 0..100
  /\ \A j \in 1..Len(reviews) : reviews[j].quality_score \in 0..100

\* A full batch whose first score was clamped from 150 and whose last is a
\* sentinel's or a clamped negative.
C2_Witness_ClampedBatch ==
  /\ pc = "walk"
  /\ Len(reviews) = MaxFiles
  /\ reviews[1].quality_score = 100
  /\ reviews[MaxFiles].quality_score = 0

\* The well-formed JSON objects of a text, as spans <<i, j>>.
ObjectSpans(t) ==
  {sp \in Positions(t, LBrace) \X Positions(t, RBrace) :
     /\ sp[1] < sp[2]
     /\ ~JsonLoads(SubSeq(t, sp[1], sp[2])).raised}

\* Those not nested in another one.
OutermostObjects(t) ==
  LET all == ObjectSpans(t)
  IN {sp \in all : ~\E o \in all : o # sp /\ o[1] <= sp[1] /\ sp[2] <= o[2]}

\* The text is prose (words, fences, stray braces), one JSON object, prose.
OneObjectInProse(t) ==
  LET outer == OutermostObjects(t)
  IN /\ Cardinality(outer) = 1
     /\ LET sp == CHOOSE o \in outer : TRUE
        IN \A i \in 1..Len(t) : (i < sp[1] \/ i > sp[2]) => t[i] \in ProseTokens

TheObject(t) ==
  LET sp == CHOOSE o \in OutermostObjects(t) : TRUE
  IN JsonLoads(SubSeq(t, sp[1], sp[2])).val

IntegerOrAbsent(d, key) ==
  ~HasKey(d, key) \/ DictGet(d, key, PyNone).type = "number"

ClampedScore(d) ==
  LET n == DictGet(d, "quality_score", PyInt(0)).num
  IN IF n < 0 THEN 0 ELSE IF n > 100 THEN 100 ELSE n

\* C3: for a response holding exactly one well-formed JSON object, with or
\* without prose or fences around it (prose that may itself hold braces),
\* _parse_response returns that object's issues, suggestions, summary and
\* clamped quality_score.  Stated for objects whose quality_score is an
\* integer or absent.
C3_ExtractsTheObject ==
  (Parsed /\ ~response.isNone /\ OneObjectInProse(response.text)
          /\ IntegerOrAbsent(TheObject(response.text), "quality_score")) =>
    LET obj == TheObject(response.text) IN
    /\ result.val.issues = DictGet(obj, "issues", PyList(<<>>))
    /\ result.val.suggestions = DictGet(obj, "suggestions", PyList(<<>>))
    /\ result.val.summary = DictGet(obj, "summary", PyStr(""))
    /\ result.val.quality_score = ClampedScore(obj)

\* The score int() cannot settle by the claim's words: a bool, a decimal string.
ScoreIsPlain(d) ==
  LET v == DictGet(d, "quality_score", PyInt(0))
  IN /\ v.type # "bool"
     /\ v.type = "string" => ~IsDecimal(v.str)

\* C4: when the span parses as an object, quality_score is min(100, max(0, n))
\* for a numeric n and 0 when missing or non-numeric, and issues, suggestions
\* and summary are the parsed object's, not the sentinel's.
C4_ScoreDefaultsWithoutFailing ==
  (Parsed /\ SpanIsObject /\ ScoreIsPlain(Data)) =>
    /\ result.val.quality_score =
         (IF DictGet(Data, "quality_score", PyInt(0)).type = "number"
            THEN ClampedScore(Data) ELSE 0)
    /\ result.val.issues = DictGet(Data, "issues", PyList(<<>>))
    /\ result.val.suggestions = DictGet(Data, "suggestions", PyList(<<>>))
    /\ result.val.summary = DictGet(Data, "summary", PyStr(""))

ArrayOrEmpty(d, key) ==
  LET v == DictGet(d, key, PyList(<<>>))
  IN IF v.type = "array" THEN v ELSE PyList(<<>>)

\* C5: when the span parses as an object, issues and suggestions are each the
\* object's value when it is an array and the empty sequence when the field
\* is missing or of another type.  Stated for objects whose quality_score is
\* an integer or absent.
C5_ListsDefaultToEmpty ==
  (Parsed /\ SpanIsObject /\ IntegerOrAbsent(Data, "quality_score")) =>
    /\ result.val.issues = ArrayOrEmpty(Data, "issues")
    /\ result.val.suggestions = ArrayOrEmpty(Data, "suggestions")

(***************************************************************************)
(* Properties of review_directory, generate_report and main, checked under *)
(* Spec.                                                                   *)
(***************************************************************************)
DirectoryMode == env.hasKey /\ env.pathKind = "dir"

\* The files of the listing the walk has passed.
Walked == SubSeq(env.listing, 1, idx - 1)

RECURSIVE Select(_, _, _)
\* The elements of q, from position i on, whose index is in keep.
Select(q, keep, i) ==
  IF i > Len(q) THEN <<>>
  ELSE (IF i \in keep THEN <<q[i]>> ELSE <<>>) \o Select(q, keep, i + 1)

\* The name ends with one of the extensions in force, character for character.
HasExtension(name) ==
  \E j \in 1..Len(Extensions) :
    LET ext == Extensions[j] IN
    /\ Len(name) >= Len(ext)
    /\ \A k \in 1..Len(ext) : name[Len(name) - Len(ext) + k] = ext[k]

ReadOk(path) == \E j \in 1..Len(opened) : opened[j].path = path /\ opened[j].ok
CallOk(path) == \E j \in 1..Len(calls) : calls[j].prompt.file_path = path /\ calls[j].ok

PathsOf(q) == [j \in 1..Len(q) |-> q[j].path]
ReviewedPaths == [j \in 1..Len(reviews) |-> reviews[j].file_path]

\* C6: in review_directory a file whose read or upstream call fails adds no
\* entry and does not stop the walk: the list holds exactly one CodeReview per
\* matching file that was read and answered, in traversal order, and every
\* matching file passed so far was attempted.
C6_FailuresAreSkipped ==
  DirectoryMode =>
    /\ ReviewedPaths =
         Select(Walked, {j \in 1..Len(Walked) :
                           /\ HasExtension(Walked[j])
                           /\ ReadOk(Walked[j])
                           /\ CallOk(Walked[j])}, 1)
    /\ PathsOf(opened) =
         Select(Walked, {j \in 1..Len(Walked) : HasExtension(Walked[j])}, 1)
    /\ pc \in {"report", "done"} => Len(Walked) = Len(env.listing)

\* A first file failed (read or call), a later one was reviewed.
C6_Witness_SkipThenReview ==
  /\ DirectoryMode
  /\ pc = "done"
  /\ Len(opened) = MaxFiles
  /\ Len(calls) >= 1
  /\ ~calls[1].ok
  /\ Len(reviews) = 1
  /\ reviews[1].file_path = env.listing[MaxFiles]

\* C7: in review_directory a file whose name does not end with one of the
\* extensions is never read, never sent upstream and never in the list, and
\* exactly one upstream call is made per matching file read successfully.
C7_OnlyMatchingFiles ==
  DirectoryMode =>
    /\ \A j \in 1..Len(opened) : HasExtension(opened[j].path)
    /\ \A j \in 1..Len(calls) : HasExtension(calls[j].prompt.file_path)
    /\ \A j \in 1..Len(reviews) : HasExtension(reviews[j].file_path)
    /\ [j \in 1..Len(calls) |-> calls[j].prompt.file_path] =
         PathsOf(Select(opened, {j \in 1..Len(opened) : opened[j].ok}, 1))

\* A listing with a file that does not match, passed over, and one that does.
C7_Witness_Filtered ==
  /\ DirectoryMode
  /\ pc = "done"
  /\ \E j \in 1..Len(env.listing) : ~HasExtension(env.listing[j])
  /\ Len(env.listing) = MaxFiles
  /\ Len(opened) = MaxFiles - 1
  /\ Len(calls) = MaxFiles - 1

FocusLabel(kind) ==
  CASE kind = "quick" -> "Quick overall review"
    [] kind = "detailed" -> "Detailed quality and design review"
    [] kind = "security" -> "Strict security vulnerability review"

\* C8: in directory mode every file is reviewed with the kind the caller
\* supplied (--type), so every prompt sent upstream carries that kind's focus
\* label.
C8_DirectoryUsesGivenType ==
  DirectoryMode =>
    \A j \in 1..Len(calls) : calls[j].prompt.focus = FocusLabel(args.type)

\* C9: a batch run always completes and renders a report: generate_report
\* finishes without a fault for every batch review_directory returns, writes
\* the file count and the average score (0.0 for no files) and one section per
\* result in batch order.
C9_ReportAlwaysRendered ==
  (DirectoryMode /\ pc = "done") =>
    /\ report.written
    /\ ~report.fault
    /\ report.files = Len(reviews)
    /\ Len(reviews) = 0 => report.average = 0
    /\ [j \in 1..Len(report.sections) |-> report.sections[j].file_path] = ReviewedPaths

\* C10: when args.path is neither a file nor a directory, main prints an error
\* and the process exits with a non-zero status, with no upstream call made
\* and no report written.
C10_InvalidPathExitsNonZero ==
  (env.hasKey /\ env.pathKind = "missing" /\ pc = "done") =>
    /\ exitCode # 0
    /\ stdout = <<Say("Invalid path", <<>>)>>
    /\ calls = <<>>
    /\ ~report.written

(***************************************************************************)
(* Both machines in one specification: every run of main and every         *)
(* application of _parse_response.                                         *)
(***************************************************************************)
SpecAll == (Init \/ InitParse) /\ [][Next \/ NextParse]_vars

====
